---------------------------- MODULE Spec2Model ----------------------------
(***************************************************************************)
(* Model of land-ownership/landtree.py: the two index builders             *)
(* (get_land_ownership, get_company_relations), the root resolver          *)
(* (get_root_company_id) and the tree formatter (format_tree /             *)
(* _format_node), driven in the order of the script's __main__ block.      *)
(*                                                                         *)
(* Python values are represented as follows.                               *)
(*   str            a TLA+ string when it is an identifier or a name read  *)
(*                  from a CSV field; the formatted output, which the code *)
(*                  assembles from pieces, is the sequence of its pieces   *)
(*                  (see the section on formatting).                       *)
(*   None           NoneVal, a value outside every CSV alphabet below.     *)
(*   dict           a function whose DOMAIN is the set of keys.            *)
(*   list           a sequence.                                            *)
(*   Company        a record [id, name, parent_id, children_ids].          *)
(*   an exception   its class name, kept in the variable error.            *)
(***************************************************************************)
EXTENDS Integers, Sequences, FiniteSets, TLC

VARIABLES
    pc,               \* position of the script in its __main__ block
    land_lines,       \* rows of land_ownership.csv consumed so far (header first)
    company_land,     \* {company_id: [land_id, ...]}
    relation_lines,   \* rows of company_relations.csv consumed so far (header first)
    companies,        \* {company_id: Company}
    args,             \* parsed command line: [company_id, from_]
    root_company_id,  \* id the tree is printed from
    output,           \* value returned by format_tree
    error             \* exception that ended the run

vars == <<pc, land_lines, company_land, relation_lines, companies, args,
          root_company_id, output, error>>

(***************************************************************************)
(* Bounds and alphabets of the inputs.                                     *)
(***************************************************************************)
MaxLandRecords == 3        \* land rows read when only the land index is built
MaxRelationRecords == 3    \* relation rows read when only the graph is built
MaxTreeLandRecords == 2    \* land rows read in a complete run
MaxTreeRelationRecords == 2 \* relation rows read in a complete run

NoneVal == "<None>"

LandIds == {"T1", "T2"}
CompanyIds == {"A", "B", "C"}
CompanyNames == {"N1", "N2"}
\* A CSV field is any string, the empty one included.
IdFields == CompanyIds \cup {""}

LandHeader == [land_id |-> "land_id", company_id |-> "company_id"]
RelationHeader == [company_id |-> "company_id", name |-> "name", parent |-> "parent"]

\* Rows a file may hold.
LandRows == [land_id : LandIds, company_id : CompanyIds]
RelationRows == [company_id : IdFields, name : CompanyNames, parent : IdFields]
\* Rows of the files of a complete run.
TreeLandRows == [land_id : {"T1"}, company_id : CompanyIds]
TreeRelationRows == [company_id : CompanyIds, name : {"N1"}, parent : IdFields]
\* Values of the positional argument company_id ("Z" names no company).
ArgIds == CompanyIds \cup {"Z"}

(***************************************************************************)
(* Company                                                                 *)
(***************************************************************************)
\* Faulty variant of the setter: it stores what it is given.
ParentIdSetterVerbatim(new_id) == new_id

\* `not new_id` of the parent_id setter: true of None and of "".
Falsy(v) == v = NoneVal \/ v = ""

ParentIdSetter(new_id) == IF Falsy(new_id) THEN NoneVal ELSE new_id

\* Company.__init__; a call that passes no children_ids passes <<>> here.
Company(id, parent_id, name, children_ids) ==
    [id |-> id,
     parent_id |-> ParentIdSetter(parent_id),
     name |-> name,
     children_ids |-> children_ids]

\* dict item assignment d[k] = v.
SetItem(d, k, v) == [x \in DOMAIN d \cup {k} |-> IF x = k THEN v ELSE d[x]]

EmptyDict == [x \in {} |-> NoneVal]

(***************************************************************************)
(* get_land_ownership                                                      *)
(***************************************************************************)
\* Faulty variant of AppendLand: a plain assignment, which forgets the
\* parcels the company had.
AppendLandOverwriting(result, record) ==
    SetItem(result, record.company_id, <<record.land_id>>)

\* result[record.company_id].append(record.land_id) on a defaultdict(list).
AppendLand(result, record) ==
    LET old == IF record.company_id \in DOMAIN result
               THEN result[record.company_id] ELSE <<>>
    IN  SetItem(result, record.company_id, Append(old, record.land_id))

(***************************************************************************)
(* get_company_relations                                                   *)
(***************************************************************************)
\* Faulty variant of RegisterWithParent: an unseen parent gets a node even
\* when the parent field is empty.
RegisterWithParentUnguarded(result, record) ==
    IF record.parent \in DOMAIN result
    THEN [result EXCEPT ![record.parent].children_ids =
                            Append(@, record.company_id)]
    ELSE SetItem(result, record.parent,
                 Company(record.parent, NoneVal, NoneVal, <<record.company_id>>))

\* Faulty variant of RegisterWithParent: a known parent gets the new child
\* in front of the others.
RegisterWithParentInFront(result, record) ==
    IF record.parent \in DOMAIN result
    THEN [result EXCEPT ![record.parent].children_ids =
                            <<record.company_id>> \o @]
    ELSE IF ~Falsy(record.parent)
         THEN SetItem(result, record.parent,
                      Company(record.parent, NoneVal, NoneVal,
                              <<record.company_id>>))
         ELSE result

\* First try-block of the loop body: register the record with its parent.
RegisterWithParent(result, record) ==
    IF record.parent \in DOMAIN result
    THEN [result EXCEPT ![record.parent].children_ids =
                            Append(@, record.company_id)]
    ELSE IF ~Falsy(record.parent)
         THEN SetItem(result, record.parent,
                      Company(record.parent, NoneVal, NoneVal,
                              <<record.company_id>>))
         ELSE result

\* Faulty variant of RegisterCompany: the record always gets a new node, so
\* a node created for a parent loses its children_ids.
RegisterCompanyAnew(result, record) ==
    SetItem(result, record.company_id,
            Company(record.company_id, record.parent, record.name, <<>>))

\* Second try-block of the loop body: create or complete the record's node.
RegisterCompany(result, record) ==
    IF record.company_id \in DOMAIN result
    THEN [result EXCEPT ![record.company_id].name = record.name,
                        ![record.company_id].parent_id =
                            ParentIdSetter(record.parent)]
    ELSE SetItem(result, record.company_id,
                 Company(record.company_id, record.parent, record.name, <<>>))

\* One iteration of the loop over the records.
ProcessRelation(result, record) ==
    RegisterCompany(RegisterWithParent(result, record), record)


(***************************************************************************)
(* get_root_company_id                                                     *)
(***************************************************************************)
\* A call chain that is deeper than the number of keys has looked up some
\* key twice, so it follows a cycle of parent or child links and never
\* returns: CPython ends it with RecursionError.
Unbounded(tree, depth) == depth > Cardinality(DOMAIN tree)

Raise(exception) == [error |-> exception, value |-> NoneVal]
Return(v) == [error |-> NoneVal, value |-> v]

\* Faulty variant of get_root_company_id: it stops at the parent.
RootFromParentOnly(company_id, tree, depth) ==
    IF company_id \notin DOMAIN tree THEN Raise("KeyError")
    ELSE IF tree[company_id].parent_id # NoneVal
         THEN Return(tree[company_id].parent_id)
         ELSE Return(company_id)

RECURSIVE RootFrom(_, _, _)
\* The call of get_root_company_id at recursion depth `depth`.
RootFrom(company_id, tree, depth) ==
    IF Unbounded(tree, depth) THEN Raise("RecursionError")
    ELSE IF company_id \notin DOMAIN tree THEN Raise("KeyError")
    ELSE IF tree[company_id].parent_id # NoneVal
         THEN RootFrom(tree[company_id].parent_id, tree, depth + 1)
         ELSE Return(company_id)

get_root_company_id(company_id, tree) == RootFrom(company_id, tree, 0)

(***************************************************************************)
(* format_tree                                                             *)
(*                                                                         *)
(* The formatted text is the sequence of the pieces the f-strings and the  *)
(* concatenations put together: the indent units "| " and "- ", a field,   *)
(* a literal between fields, a decimal digit, the line break.              *)
(***************************************************************************)
Digits == <<"0", "1", "2", "3", "4", "5", "6", "7", "8", "9">>

RECURSIVE Decimal(_)
\* str() of a non-negative int.
Decimal(n) ==
    IF n < 10 THEN <<Digits[n + 1]>>
    ELSE Decimal(n \div 10) \o <<Digits[(n % 10) + 1]>>

\* str() of a field that is a str or None.
Str(v) == IF v = NoneVal THEN "None" ELSE v

\* len(company_land.get(company_id, []))
DirectParcels(land, company_id) ==
    IF company_id \in DOMAIN land THEN Len(land[company_id]) ELSE 0

\* Faulty variant of Indent: one "| " too few.
IndentShallow(level) ==
    IF level # 0 THEN [i \in 1..(level - 1) |-> "| "] \o <<"- ">> ELSE <<>>

\* level * "| " + "- " when level is non-zero, "" otherwise.
Indent(level) ==
    IF level # 0 THEN [i \in 1..level |-> "| "] \o <<"- ">> ELSE <<>>

FormatLine(company, level, total_parcels) ==
    Indent(level) \o <<Str(company.id), "; ", Str(company.name), "; owner of ">>
        \o Decimal(total_parcels) \o <<" land parcels">>

\* Variant of Expands that does what the docstring of format_tree announces:
\* the tree is not expanded below the target company.
ExpandsAboveTarget(company, target_company_id) == company.id # target_company_id

\* Whether the loop over children_ids is entered for this node.
Expands(company, target_company_id) == TRUE

RECURSIVE FormatNode(_, _, _, _, _)
RECURSIVE FormatChildren(_, _, _, _, _, _)
\* Faulty variant of FormatChildren: the children's parcels are not added.
FormatChildrenUncounted(tree, land, children_ids, target_company_id, level, acc) ==
    IF children_ids = <<>> THEN acc
    ELSE LET child == FormatNode(tree, land, Head(children_ids),
                                 target_company_id, level + 1)
         IN  IF child.error # NoneVal THEN child
             ELSE FormatChildren(tree, land, Tail(children_ids),
                                 target_company_id, level,
                                 [error |-> NoneVal,
                                  output |-> acc.output \o child.output,
                                  parcels |-> acc.parcels])

\* The for-loop of _format_node over children_ids, from the i-th child on,
\* with the values output and total_parcels have when it gets there.
FormatChildren(tree, land, children_ids, target_company_id, level, acc) ==
    IF children_ids = <<>> THEN acc
    ELSE LET child == FormatNode(tree, land, Head(children_ids),
                                 target_company_id, level + 1)
         IN  IF child.error # NoneVal THEN child
             ELSE FormatChildren(tree, land, Tail(children_ids),
                                 target_company_id, level,
                                 [error |-> NoneVal,
                                  output |-> acc.output \o child.output,
                                  parcels |-> acc.parcels + child.parcels])

\* _format_node: the pair (text, total) it returns, or the exception.
FormatNode(tree, land, root, target_company_id, level) ==
    IF Unbounded(tree, level)
    THEN [error |-> "RecursionError", output |-> <<>>, parcels |-> 0]
    ELSE IF root \notin DOMAIN tree
    THEN [error |-> "KeyError", output |-> <<>>, parcels |-> 0]
    ELSE LET company == tree[root]
             loop == FormatChildren(
                         tree, land,
                         IF Expands(company, target_company_id)
                         THEN company.children_ids ELSE <<>>,
                         target_company_id, level,
                         [error |-> NoneVal, output |-> <<>>,
                          parcels |-> DirectParcels(land, root)])
         IN  IF loop.error # NoneVal THEN loop
             ELSE [error |-> NoneVal,
                   output |-> FormatLine(company, level, loop.parcels)
                                  \o <<"\n">> \o loop.output,
                   parcels |-> loop.parcels]

format_tree(tree, land, root, target_company_id) ==
    FormatNode(tree, land, root, target_company_id, 0)

\* Faulty variant of LandAfterFormat: company_land[root] on the defaultdict
\* inserts an empty list for an unknown company.
LandAfterSubscript(land, root) ==
    IF root \in DOMAIN land THEN land ELSE SetItem(land, root, <<>>)

\* What company_land is after _format_node has read it: dict.get inserts
\* nothing, also into a defaultdict.
LandAfterFormat(land, root) == land

(***************************************************************************)
(* The script: __main__                                                    *)
(***************************************************************************)
NoOutput == <<>>
NoArgs == [company_id |-> NoneVal, from_ |-> NoneVal]

Init ==
    /\ pc = "land_header"
    /\ land_lines = <<>>
    /\ company_land = EmptyDict
    /\ relation_lines = <<>>
    /\ companies = EmptyDict
    /\ args = NoArgs
    /\ root_company_id = NoneVal
    /\ output = NoOutput
    /\ error = NoneVal

\* get_land_ownership: next(data_file) discards the header line.
LandDiscardHeader ==
    /\ pc = "land_header"
    /\ land_lines' = <<LandHeader>>
    /\ pc' = "land"
    /\ UNCHANGED <<company_land, relation_lines, companies, args,
                   root_company_id, output, error>>

\* get_land_ownership: one iteration of the loop over the records.
LandRecord(rows, max) ==
    /\ pc = "land"
    /\ Len(land_lines) <= max
    /\ \E record \in rows :
          /\ land_lines' = Append(land_lines, record)
          /\ company_land' = AppendLand(company_land, record)
    /\ UNCHANGED <<pc, relation_lines, companies, args, root_company_id,
                   output, error>>

\* get_land_ownership returns at the end of the file.
LandReturn ==
    /\ pc = "land"
    /\ pc' = "relations_header"
    /\ UNCHANGED <<land_lines, company_land, relation_lines, companies, args,
                   root_company_id, output, error>>

\* get_company_relations: next(data_file) discards the header line.
RelationsDiscardHeader ==
    /\ pc = "relations_header"
    /\ relation_lines' = <<RelationHeader>>
    /\ pc' = "relations"
    /\ UNCHANGED <<land_lines, company_land, companies, args,
                   root_company_id, output, error>>

\* get_company_relations: one iteration of the loop over the records.
RelationRecord(rows, max) ==
    /\ pc = "relations"
    /\ Len(relation_lines) <= max
    /\ \E record \in rows :
          /\ relation_lines' = Append(relation_lines, record)
          /\ companies' = ProcessRelation(companies, record)
    /\ UNCHANGED <<pc, land_lines, company_land, args, root_company_id,
                   output, error>>

\* get_company_relations returns at the end of the file.
RelationsReturn ==
    /\ pc = "relations"
    /\ pc' = "root"
    /\ UNCHANGED <<land_lines, company_land, relation_lines, companies, args,
                   root_company_id, output, error>>

\* The command line, and the choice of the id the tree is printed from.
ResolveRoot ==
    /\ pc = "root"
    /\ \E company_id \in ArgIds, from_ \in {"root", NoneVal} :
          /\ args' = [company_id |-> company_id, from_ |-> from_]
          /\ IF from_ = "root"
             THEN LET r == get_root_company_id(company_id, companies)
                  IN  /\ error' = r.error
                      /\ root_company_id' = r.value
                      /\ pc' = IF r.error = NoneVal THEN "format" ELSE "failed"
             ELSE /\ error' = NoneVal
                  /\ root_company_id' = company_id
                  /\ pc' = "format"
    /\ UNCHANGED <<land_lines, company_land, relation_lines, companies, output>>

\* output = format_tree(companies, company_land, root_company_id, args.company_id)
FormatTree ==
    /\ pc = "format"
    /\ LET r == format_tree(companies, company_land, root_company_id,
                            args.company_id)
       IN  /\ error' = r.error
           /\ output' = r.output
           /\ pc' = IF r.error = NoneVal THEN "done" ELSE "failed"
    /\ company_land' = LandAfterFormat(company_land, root_company_id)
    /\ UNCHANGED <<land_lines, relation_lines, companies, args, root_company_id>>

\* A complete run of the script.
Next ==
    \/ LandDiscardHeader
    \/ LandRecord(TreeLandRows, MaxTreeLandRecords)
    \/ LandReturn
    \/ RelationsDiscardHeader
    \/ RelationRecord(TreeRelationRows, MaxTreeRelationRecords)
    \/ RelationsReturn
    \/ ResolveRoot
    \/ FormatTree

Spec == Init /\ [][Next]_vars

\* get_land_ownership alone, on any rows.
NextLand ==
    \/ LandDiscardHeader
    \/ LandRecord(LandRows, MaxLandRecords)
    \/ LandReturn

SpecLand == Init /\ [][NextLand]_vars

\* get_company_relations alone, on any rows; the land file held its header only.
InitRelations ==
    /\ pc = "relations_header"
    /\ land_lines = <<LandHeader>>
    /\ company_land = EmptyDict
    /\ relation_lines = <<>>
    /\ companies = EmptyDict
    /\ args = NoArgs
    /\ root_company_id = NoneVal
    /\ output = NoOutput
    /\ error = NoneVal

NextRelations ==
    \/ RelationsDiscardHeader
    \/ RelationRecord(RelationRows, MaxRelationRecords)
    \/ RelationsReturn

SpecRelations == InitRelations /\ [][NextRelations]_vars

(***************************************************************************)
(* The input read so far, and what it says about each company.             *)
(***************************************************************************)
LandRecords == IF land_lines = <<>> THEN <<>> ELSE Tail(land_lines)
RelationRecords == IF relation_lines = <<>> THEN <<>> ELSE Tail(relation_lines)

Keys == DOMAIN companies

\* The company_ids of the records that name x as their parent, in stream order.
ChildrenNaming(x) ==
    LET naming == SelectSeq(RelationRecords, LAMBDA r : r.parent = x)
    IN  [i \in 1..Len(naming) |-> naming[i].company_id]

IsSubject(x) == \E i \in 1..Len(RelationRecords) : RelationRecords[i].company_id = x
IsNamedParent(x) == \E i \in 1..Len(RelationRecords) : RelationRecords[i].parent = x

\* The last record whose subject is x.
OwnRecord(x) ==
    LET last == CHOOSE i \in 1..Len(RelationRecords) :
                    /\ RelationRecords[i].company_id = x
                    /\ \A j \in (i + 1)..Len(RelationRecords) :
                           RelationRecords[j].company_id # x
    IN  RelationRecords[last]

\* x is named as a parent by a record that comes before a record of x itself.
ForwardReferenced(x) ==
    \E i, j \in 1..Len(RelationRecords) :
        /\ i < j
        /\ RelationRecords[i].parent = x
        /\ RelationRecords[j].company_id = x

SubjectsNonEmpty ==
    \A i \in 1..Len(RelationRecords) : RelationRecords[i].company_id # ""

NoDuplicateSubjects ==
    \A i, j \in 1..Len(RelationRecords) :
        i # j => RelationRecords[i].company_id # RelationRecords[j].company_id

Occurrences(seq, x) == Cardinality({i \in 1..Len(seq) : seq[i] = x})

C2_ParentOnlyNode ==
    \A x \in IdFields \ {""} :
        (IsNamedParent(x) /\ ~IsSubject(x)) =>
            /\ x \in Keys
            /\ companies[x].id = x
            /\ companies[x].name = NoneVal
            /\ companies[x].parent_id = NoneVal
            /\ companies[x].children_ids = ChildrenNaming(x)

\* A parent-only company named by two records of different children.
C2_Witness ==
    \E x \in Keys :
        /\ IsNamedParent(x) /\ ~IsSubject(x)
        /\ Len(companies[x].children_ids) >= 2
        /\ companies[x].children_ids[1] # companies[x].children_ids[2]

(***************************************************************************)
(* C3                                                                      *)
(***************************************************************************)
\* C3: a company named as a parent before its own record arrives ends with
\* the name of its own record and that record's parent (None for an empty
\* field, never ""), and keeps the children_ids it had accumulated: they are
\* the company_ids of all the records naming it.
C3_ForwardReferenceResolved ==
    \A x \in IdFields \ {""} :
        ForwardReferenced(x) =>
            /\ x \in Keys
            /\ companies[x].name = OwnRecord(x).name
            /\ companies[x].parent_id =
                   (IF OwnRecord(x).parent = "" THEN NoneVal ELSE OwnRecord(x).parent)
            /\ companies[x].parent_id # ""
            /\ companies[x].children_ids = ChildrenNaming(x)

\* A forward-referenced company whose own record has an empty parent field,
\* and one whose own record names a parent.
C3_Witness ==
    /\ \E x \in Keys :
          /\ ForwardReferenced(x)
          /\ OwnRecord(x).parent = ""
          /\ companies[x].children_ids # <<>>
    /\ \E y \in Keys :
          /\ ForwardReferenced(y)
          /\ OwnRecord(y).parent # ""

(***************************************************************************)
(* C7                                                                      *)
(***************************************************************************)
\* The land_ids of the records that name company x, in stream order.
LandsNaming(x) ==
    LET naming == SelectSeq(LandRecords, LAMBDA r : r.company_id = x)
    IN  [i \in 1..Len(naming) |-> naming[i].land_id]

\* C7: the index maps each company named by a land record to the land_ids of
\* the records naming it, in stream order with duplicates; no other company
\* is a key, and the header line adds no entry.
C7_LandIndex ==
    /\ \A x \in DOMAIN company_land :
          LandsNaming(x) # <<>> /\ company_land[x] = LandsNaming(x)
    /\ \A i \in 1..Len(LandRecords) :
          LandRecords[i].company_id \in DOMAIN company_land
    /\ LandHeader.company_id \notin DOMAIN company_land

\* Two companies, one of them owning the same parcel id twice, interleaved.
C7_Witness ==
    /\ Cardinality(DOMAIN company_land) >= 2
    /\ \E x \in DOMAIN company_land :
          /\ Len(company_land[x]) = 2
          /\ company_land[x][1] = company_land[x][2]
          /\ LandRecords[2].company_id # x

(***************************************************************************)
(* C10                                                                     *)
(***************************************************************************)
\* Every child listed by a node is a key whose parent_id is that node.
ChildrenPointBack ==
    \A k \in Keys : \A i \in 1..Len(companies[k].children_ids) :
        LET c == companies[k].children_ids[i]
        IN  c \in Keys /\ companies[c].parent_id = k

\* Every parent_id is a key that lists the node exactly once.
ParentsListChild ==
    \A k \in Keys :
        companies[k].parent_id # NoneVal =>
            /\ companies[k].parent_id \in Keys
            /\ Occurrences(companies[companies[k].parent_id].children_ids, k) = 1

\* Neither traversal, started from any key, looks up an id that is no key.
NoMissingLookup ==
    \A k \in Keys :
        /\ get_root_company_id(k, companies).error # "KeyError"
        /\ format_tree(companies, company_land, k, k).error # "KeyError"

LinksMirror == ChildrenPointBack /\ ParentsListChild /\ NoMissingLookup

ParentOf(k) == IF k \in Keys THEN companies[k].parent_id ELSE NoneVal

RECURSIVE UpwardClosure(_)
\* The least set that contains S and the parent of each of its members.
UpwardClosure(S) ==
    LET more == S \cup {ParentOf(k) : k \in {j \in S : ParentOf(j) # NoneVal}}
    IN  IF more = S THEN S ELSE UpwardClosure(more)

\* k and the companies above it.
ChainFrom(k) == UpwardClosure({k})
\* The companies strictly above k.
Ancestors(k) == IF ParentOf(k) = NoneVal THEN {} ELSE UpwardClosure({ParentOf(k)})
\* No company on the chain from k is its own ancestor.
AcyclicFrom(k) == \A j \in ChainFrom(k) : j \notin Ancestors(j)

\* C4: for a key whose chain of parent_id links is acyclic,
\* get_root_company_id returns the company on that chain whose parent_id is
\* None, which is the key itself when it has no parent; resolving the
\* returned root again returns it; and the script, asked for the root,
\* prints from that company.
C4_RootResolved ==
    /\ \A k \in Keys :
          AcyclicFrom(k) =>
              LET r == get_root_company_id(k, companies)
              IN  /\ r.error = NoneVal
                  /\ r.value \in ChainFrom(k)
                  /\ ParentOf(r.value) = NoneVal
                  /\ (ParentOf(k) = NoneVal => r.value = k)
                  /\ get_root_company_id(r.value, companies) = r
    /\ (pc \in {"format", "done"} /\ args.from_ = "root") =>
          /\ root_company_id \in ChainFrom(args.company_id)
          /\ ParentOf(root_company_id) = NoneVal
          /\ root_company_id \in Keys

\* The root was resolved through two parent links.
C4_Witness ==
    /\ pc = "format"
    /\ args.from_ = "root"
    /\ root_company_id # args.company_id
    /\ ParentOf(args.company_id) # root_company_id
    /\ ParentOf(ParentOf(args.company_id)) = root_company_id

(***************************************************************************)
(* Reading the printed tree back.                                          *)
(***************************************************************************)
RECURSIVE SplitLines(_, _)
\* The lines of a text, each without its line break; `line` is the part of
\* the current line already passed.  Text after the last break is a line too.
SplitLines(text, line) ==
    IF text = <<>> THEN (IF line = <<>> THEN <<>> ELSE <<line>>)
    ELSE IF Head(text) = "\n" THEN <<line>> \o SplitLines(Tail(text), <<>>)
    ELSE SplitLines(Tail(text), Append(line, Head(text)))

RECURSIVE Bars(_)
\* The number of "| " pieces a line starts with.
Bars(line) ==
    IF line # <<>> /\ Head(line) = "| " THEN 1 + Bars(Tail(line)) ELSE 0

DigitValue(d) == CHOOSE v \in 0..9 : Digits[v + 1] = d

RECURSIVE Number(_)
\* The number a non-empty sequence of digits writes.
Number(digits) ==
    IF Len(digits) = 1 THEN DigitValue(digits[1])
    ELSE 10 * Number(SubSeq(digits, 1, Len(digits) - 1))
             + DigitValue(digits[Len(digits)])

\* A printed line read as "<prefix><id>; <name>; owner of <total> land parcels".
ParseLine(line) ==
    LET level == Bars(line)
        rest == SubSeq(line, IF level = 0 THEN 1 ELSE level + 2, Len(line))
        digits == SubSeq(rest, 5, Len(rest) - 1)
        shaped == /\ (level > 0 => (Len(line) > level /\ line[level + 1] = "- "))
                  /\ Len(rest) >= 6
                  /\ rest[2] = "; "
                  /\ rest[4] = "; owner of "
                  /\ rest[Len(rest)] = " land parcels"
                  /\ \A i \in 1..Len(digits) :
                         \E v \in 0..9 : Digits[v + 1] = digits[i]
    IN  IF shaped
        THEN [shaped |-> TRUE, level |-> level, id |-> rest[1], name |-> rest[3],
              total |-> Number(digits)]
        ELSE [shaped |-> FALSE, level |-> 0, id |-> "", name |-> "", total |-> 0]

Printed == LET lines == SplitLines(output, <<>>)
           IN  [i \in 1..Len(lines) |-> ParseLine(lines[i])]

\* The lines below line i: those after it, up to the next line that is not
\* deeper than line i.
Below(printed, i) ==
    {j \in (i + 1)..Len(printed) :
        \A m \in (i + 1)..j : printed[m].level > printed[i].level}

\* The lines of the children of line i, in the order printed.
ChildLines(printed, i) ==
    SelectSeq([j \in 1..Len(printed) |-> j],
              LAMBDA j : j \in Below(printed, i)
                         /\ printed[j].level = printed[i].level + 1)

RECURSIVE Sum(_, _)
\* The sum of f over the indices in S.
Sum(f, S) ==
    IF S = {} THEN 0
    ELSE LET x == CHOOSE y \in S : TRUE IN f[x] + Sum(f, S \ {x})

\* The number of land records that name company x.
OwnedDirectly(x) ==
    Cardinality({i \in 1..Len(LandRecords) : LandRecords[i].company_id = x})

RECURSIVE DownwardClosure(_)
\* The least set that contains S and the children of each of its members.
DownwardClosure(S) ==
    LET more == S \cup UNION {{companies[k].children_ids[i] :
                                  i \in 1..Len(companies[k].children_ids)} :
                              k \in S \cap Keys}
    IN  IF more = S THEN S ELSE DownwardClosure(more)

(***************************************************************************)
(* C5                                                                      *)
(***************************************************************************)
\* C5: the count printed on a node's line is the node's direct parcel count
\* plus the counts printed on the lines of its children, which is the number
\* of parcels owned directly by the companies of that line and of the lines
\* below it.
C5_TotalParcels ==
    pc = "done" =>
        LET printed == Printed
            direct == [i \in 1..Len(printed) |-> OwnedDirectly(printed[i].id)]
            total == [i \in 1..Len(printed) |-> printed[i].total]
        IN  \A i \in 1..Len(printed) :
                LET children == ChildLines(printed, i)
                IN  /\ printed[i].shaped
                    /\ printed[i].total =
                           direct[i] + Sum(total, {children[c] : c \in 1..Len(children)})
                    /\ printed[i].total =
                           direct[i] + Sum(direct, Below(printed, i))

\* A chain of three printed companies in which the first and the last own
\* parcels directly.
C5_Witness ==
    /\ pc = "done"
    /\ LET printed == Printed
       IN  /\ Len(printed) = 3
           /\ printed[3].level = 2
           /\ OwnedDirectly(printed[1].id) >= 1
           /\ OwnedDirectly(printed[2].id) = 0
           /\ printed[3].total >= 1
           /\ printed[1].total > printed[3].total

C8_UnknownCompany ==
    [][/\ (pc = "root" /\ pc' # "root" /\ args'.from_ = "root"
              /\ args'.company_id \notin Keys)
          => /\ pc' = "failed"
             /\ error' = "KeyError"
             /\ root_company_id' = NoneVal
             /\ output' = NoOutput
             /\ companies' = companies
             /\ company_land' = company_land
       /\ (pc = "format" /\ pc' # "format" /\ root_company_id \notin Keys)
          => /\ pc' = "failed"
             /\ error' = "KeyError"
             /\ output' = NoOutput
             /\ companies' = companies
             /\ company_land' = company_land
      ]_vars

\* format_tree failed on an unknown root with a graph and an index in place.
C8_Witness ==
    /\ pc = "failed"
    /\ error = "KeyError"
    /\ args.from_ = NoneVal
    /\ root_company_id \notin Keys
    /\ Keys # {}
    /\ DOMAIN company_land # {}

=============================================================================
